---- MODULE Spec2Model ----
(***************************************************************************)
(* DiffNet: boundary-condition masking, residual assembly and the          *)
(* optimisation run of the Poisson and Stokes (lid-driven cavity)          *)
(* single-instance examples, and the Rectangle dataset.                    *)
(*                                                                         *)
(* Numbers.  Tensor entries are finite reals.  The entries of a boundary   *)
(* mask are represented by the integer 100 times their value (a mask       *)
(* entry 1 is MaskOne = 100, the threshold 0.5 is 50, the plotting         *)
(* threshold 0.05 is 5); the entries of a field, coefficient or forcing    *)
(* tensor are integers.  Values at quadrature points are exact numbers     *)
(* a + b*sqrt(3), kept as pairs <<a, b>> at the scale GpScale.             *)
(*                                                                         *)
(* Tensors.  A grid tensor of shape (1,1,n,n) is [size |-> n, at |-> f]    *)
(* with f a function on Nodes(n); a stacked tensor (1,c,n,n) is the        *)
(* sequence of its c channels.  RuntimeError stands for the exception      *)
(* torch raises on shapes that do not broadcast.                           *)
(***************************************************************************)
EXTENDS Integers, Sequences, FiniteSets, TLC

\* ---------------------------------------------------------------- bounds
MaxDomain == 3
MaxVal == 2
MaxSteps == 1
MaxLoss == 22
EpochCap == 12

\* ------------------------------------------------------ program constants
One == 1
MaskOne == 100
Threshold == 50
PlotThreshold == 5
\* The 'loss' metric is counted in units of 1e-8, the min_delta of main().
MinDelta == 1
Patience == 10
PoissonMaxEpochs == 5
StokesMaxEpochs == 1000

\* ---------------------------------------------------------------- tensors
Nodes(n) == (0..(n - 1)) \X (0..(n - 1))

Full(n, c) == [size |-> n, at |-> [x \in Nodes(n) |-> c]]

RuntimeError == [size |-> 0, at |-> [x \in {} |-> 0]]

IsError(t) == t.size = 0

Max2(a, b) == IF a >= b THEN a ELSE b

\* Entry x of t seen as a tensor of grid size n (a size-1 axis is expanded).
Entry(t, n, x) == IF t.size = n THEN t.at[x] ELSE t.at[<<0, 0>>]

\* Shapes (1,1,a,a) and (1,1,b,b) broadcast when equal or when one is 1.
Broadcastable(a, b) == a = b \/ a = 1 \/ b = 1

MulScalar(t, c) == [size |-> t.size, at |-> [x \in DOMAIN t.at |-> t.at[x] * c]]

AddScalar(c, t) == [size |-> t.size, at |-> [x \in DOMAIN t.at |-> c + t.at[x]]]

Gt(t, c) == [size |-> t.size, at |-> [x \in DOMAIN t.at |-> t.at[x] > c]]

Ge(t, c) == [size |-> t.size, at |-> [x \in DOMAIN t.at |-> t.at[x] >= c]]

LogicalOr(a, b) ==
    [size |-> a.size, at |-> [x \in DOMAIN a.at |-> a.at[x] \/ b.at[x]]]

\* torch.where(cond, a, b): a new tensor of the broadcast shape; a and b
\* always have one shape here (a is computed from b).
Where(cond, a, b) ==
    IF IsError(cond) \/ IsError(a) \/ IsError(b) THEN RuntimeError
    ELSE IF ~Broadcastable(cond.size, b.size) THEN RuntimeError
    ELSE LET n == Max2(cond.size, b.size)
         IN  [size |-> n,
              at |-> [x \in Nodes(n) |->
                        IF Entry(cond, n, x) THEN Entry(a, n, x)
                        ELSE Entry(b, n, x)]]

\* t[:, k:k+1, :, :] of a stacked tensor, k counted from 0.
Channel(t, k) == t[k + 1]

\* --------------------------------------------------------------- datasets
\* a[0, :] = v  and  a[-1, :] = v  on an n x n array (index -1 is n - 1).
SetRow(t, i, v) ==
    [t EXCEPT !.at = [x \in DOMAIN t.at |-> IF x[1] = i THEN v ELSE t.at[x]]]

SetCol(t, j, v) ==
    [t EXCEPT !.at = [x \in DOMAIN t.at |-> IF x[2] = j THEN v ELSE t.at[x]]]

SetNode(t, i, j, v) ==
    [t EXCEPT !.at = [x \in DOMAIN t.at |-> IF x = <<i, j>> THEN v ELSE t.at[x]]]

\* Rectangle with the sink written on the row of the source.
RectangleSameRow(domain_size) ==
    [kind    |-> "Rectangle",
     domain_size |-> domain_size,
     nu      |-> Full(domain_size, One),
     bc1     |-> SetRow(Full(domain_size, 0), 0, MaskOne),
     bc2     |-> SetRow(Full(domain_size, 0), 0, MaskOne),
     bc3     |-> Full(domain_size, 0),
     forcing |-> Full(domain_size, 0)]

Rectangle(domain_size) ==
    [kind    |-> "Rectangle",
     domain_size |-> domain_size,
     nu      |-> Full(domain_size, One),
     bc1     |-> SetRow(Full(domain_size, 0), 0, MaskOne),
     bc2     |-> SetRow(Full(domain_size, 0), domain_size - 1, MaskOne),
     bc3     |-> Full(domain_size, 0),
     forcing |-> Full(domain_size, 0)]

Dataset(nu, domain_size) ==
    [kind    |-> "Dataset",
     domain_size |-> domain_size,
     nu      |-> nu,
     bc1     |-> SetCol(Full(domain_size, 0), 0, MaskOne),
     bc2     |-> SetCol(Full(domain_size, 0), domain_size - 1, MaskOne),
     bc3     |-> Full(domain_size, 0),
     forcing |-> Full(domain_size, 0)]

\* xx[i, j] = linspace(0, 1, n)[j]
MeshX(n) ==
    [size |-> n,
     at |-> [x \in Nodes(n) |-> IF n = 1 THEN 0 ELSE x[2] \div (n - 1)]]

LDC(domain_size, Re) ==
    [kind    |-> "LDC",
     domain_size |-> domain_size,
     nu      |-> MeshX(domain_size),
     bc1     |-> SetRow(SetCol(SetCol(Full(domain_size, 0), 0, MaskOne),
                               domain_size - 1, MaskOne), 0, MaskOne),
     bc2     |-> SetRow(Full(domain_size, 0), domain_size - 1, MaskOne),
     bc3     |-> SetNode(Full(domain_size, 0), 0, 0, MaskOne),
     forcing |-> Full(domain_size, One \div Re)]

\* __getitem__: the stacked inputs tensor of a dataset.
GetInputs(d) ==
    IF d.kind = "LDC" THEN <<d.nu, d.bc1, d.bc2, d.bc3>>
    ELSE <<d.nu, d.bc1, d.bc2>>

\* ------------------------------------------------------ boundary masking
\* Poisson.loss with the comparison >= in place of >.
PoissonLossBCGe(u, bc1, bc2) ==
    LET u1 == Where(Ge(bc1, Threshold), AddScalar(One, MulScalar(u, 0)), u)
    IN  Where(Ge(bc2, Threshold), MulScalar(u1, 0), u1)

\* Poisson.loss with 1.0 + u in place of 1.0 + u*0.0.
PoissonLossBCAdd(u, bc1, bc2) ==
    LET u1 == Where(Gt(bc1, Threshold), AddScalar(One, u), u)
    IN  Where(Gt(bc2, Threshold), MulScalar(u1, 0), u1)

\* Poisson.loss, "apply boundary conditions".
PoissonLossBC(u, bc1, bc2) ==
    LET u1 == Where(Gt(bc1, Threshold), AddScalar(One, MulScalar(u, 0)), u)
    IN  Where(Gt(bc2, Threshold), MulScalar(u1, 0), u1)

\* Poisson.on_epoch_end, "apply boundary conditions".
PoissonEpochEndBC(u, bc1, bc2) ==
    LET u1 == Where(Gt(bc1, Threshold), AddScalar(One, MulScalar(u, 0)), u)
    IN  Where(Gt(bc2, Threshold), MulScalar(u1, 0), u1)

\* Stokes.loss with the two masks of u applied in the other order.
StokesLossUSwapped(u, bc1, bc2) ==
    LET u1 == Where(Ge(bc2, Threshold), AddScalar(One, MulScalar(u, 0)), u)
    IN  Where(Ge(bc1, Threshold), MulScalar(u1, 0), u1)

\* Stokes.loss, "apply boundary conditions".
StokesLossU(u, bc1, bc2) ==
    LET u1 == Where(Ge(bc1, Threshold), MulScalar(u, 0), u)
    IN  Where(Ge(bc2, Threshold), AddScalar(One, MulScalar(u1, 0)), u1)

StokesLossV(v, bc1, bc2) ==
    Where(LogicalOr(Ge(bc1, Threshold), Ge(bc2, Threshold)), MulScalar(v, 0), v)

StokesLossP(p, bc3) == Where(Ge(bc3, Threshold), MulScalar(p, 0), p)

\* Stokes.on_epoch_end with the two masks of u applied in the other order.
StokesEpochEndUSwapped(u, bc1, bc2) ==
    LET u1 == Where(Ge(bc2, PlotThreshold), AddScalar(One, MulScalar(u, 0)), u)
    IN  Where(Ge(bc1, PlotThreshold), MulScalar(u1, 0), u1)

\* Stokes.on_epoch_end, "apply boundary conditions".
StokesEpochEndU(u, bc1, bc2) ==
    LET u1 == Where(Ge(bc1, PlotThreshold), MulScalar(u, 0), u)
    IN  Where(Ge(bc2, PlotThreshold), AddScalar(One, MulScalar(u1, 0)), u1)

StokesEpochEndV(v, bc1, bc2) ==
    Where(LogicalOr(Ge(bc1, Threshold), Ge(bc2, Threshold)), MulScalar(v, 0), v)

StokesEpochEndP(p, bc3) == Where(Ge(bc3, Threshold), MulScalar(p, 0), p)

\* --------------------------------------------- exact numbers a + b*sqrt(3)
QAdd(p, q) == <<p[1] + q[1], p[2] + q[2]>>

QSub(p, q) == <<p[1] - q[1], p[2] - q[2]>>

QMul(p, q) == <<p[1] * q[1] + 3 * p[2] * q[2], p[1] * q[2] + p[2] * q[1]>>

QScale(k, p) == <<k * p[1], k * p[2]>>

QZero == <<0, 0>>

\* a + b*sqrt(3) >= 0
QNonNeg(p) ==
    IF p[1] >= 0 /\ p[2] >= 0 THEN TRUE
    ELSE IF p[1] <= 0 /\ p[2] <= 0 THEN FALSE
    ELSE IF p[1] >= 0 THEN p[1] * p[1] >= 3 * p[2] * p[2]
    ELSE 3 * p[2] * p[2] >= p[1] * p[1]

\* ------------------------------------------------ field evaluation engine
\* Bilinear elements with the 2 x 2 Gauss rule.  A Gauss point is the pair
\* of signs <<s, t>> of its reference coordinates (s/sqrt(3), t/sqrt(3)), a
\* local node the pair of signs <<a, b>> of its corner; x runs along the
\* second grid index.  A value at a Gauss point is kept times GpScale.
GpScale == 6

Signs == {-1, 1}

GaussPts == Signs \X Signs

\* Element e (its first node) has the corners e + <<(b+1)/2, (a+1)/2>>.
Corner(e, a, b) == <<e[1] + (b + 1) \div 2, e[2] + (a + 1) \div 2>>

\* GpScale * (1 + a*xi)(1 + b*eta)/4 at xi = s/sqrt(3), eta = t/sqrt(3)
Shape(a, b, g) ==
    <<(3 + a * g[1] * b * g[2]) \div 2, (a * g[1] + b * g[2]) \div 2>>

\* GpScale * dN/dx and dN/dy; the element has side 1/m, so the reference
\* derivative is multiplied by 2*m.
ShapeDerX(a, b, g, m) == <<3 * a * m, a * b * g[2] * m>>

ShapeDerY(a, b, g, m) == <<3 * b * m, a * b * g[1] * m>>

\* The sum over the four local nodes of weight(a, b) * nodal value.
Contract(t, e, w) ==
    QAdd(QAdd(QScale(t.at[Corner(e, -1, -1)], w[<<-1, -1>>]),
              QScale(t.at[Corner(e, 1, -1)], w[<<1, -1>>])),
         QAdd(QScale(t.at[Corner(e, -1, 1)], w[<<-1, 1>>]),
              QScale(t.at[Corner(e, 1, 1)], w[<<1, 1>>])))

IncompatibleGridSize == [size |-> 0, at |-> [x \in {} |-> QZero]]

gauss_pt_evaluation(t) ==
    IF t.size < 2 THEN IncompatibleGridSize
    ELSE [size |-> t.size - 1,
          at |-> [k \in Nodes(t.size - 1) \X GaussPts |->
                    Contract(t, k[1], [c \in Signs \X Signs |->
                                             Shape(c[1], c[2], k[2])])]]

gauss_pt_evaluation_der_x(t) ==
    IF t.size < 2 THEN IncompatibleGridSize
    ELSE [size |-> t.size - 1,
          at |-> [k \in Nodes(t.size - 1) \X GaussPts |->
                    Contract(t, k[1], [c \in Signs \X Signs |->
                               ShapeDerX(c[1], c[2], k[2], t.size - 1)])]]

gauss_pt_evaluation_der_y(t) ==
    IF t.size < 2 THEN IncompatibleGridSize
    ELSE [size |-> t.size - 1,
          at |-> [k \in Nodes(t.size - 1) \X GaussPts |->
                    Contract(t, k[1], [c \in Signs \X Signs |->
                               ShapeDerY(c[1], c[2], k[2], t.size - 1)])]]

\* gpw: the Gauss weight 1 times the area scaling (1/(2m))^2 of an element,
\* as the pair numerator, denominator.
GpwNum == 1

GpwDen(m) == 4 * m * m

\* The sum of F over the Gauss points of one element (torch.sum over axis 1)
\* and over the m x m elements (numerator of torch.mean).
SumGauss(e, f) ==
    QAdd(QAdd(f[<<e, <<-1, -1>>>>], f[<<e, <<1, -1>>>>]),
         QAdd(f[<<e, <<-1, 1>>>>], f[<<e, <<1, 1>>>>]))

RECURSIVE SumElements(_, _, _)
SumElements(m, i, f) ==
    IF i = m * m THEN QZero
    ELSE QAdd(SumGauss(<<i \div m, i % m>>, f), SumElements(m, i + 1, f))

\* ------------------------------------------------------- residual assembly
\* The integrand with the sign of its two terms exchanged.
PoissonIntegrandNegated(nu_gp, f_gp, u_gp, u_x_gp, u_y_gp) ==
    QSub(QScale(GpScale, QMul(u_gp, f_gp)),
         QMul(nu_gp, QAdd(QMul(u_x_gp, u_x_gp), QMul(u_y_gp, u_y_gp))))

\* Poisson.loss: the integrand at one Gauss point, at the scale GpScale^3
\* (the product u_gp * f_gp of two values is brought to the scale of three).
PoissonIntegrand(nu_gp, f_gp, u_gp, u_x_gp, u_y_gp) ==
    QSub(QMul(nu_gp, QAdd(QMul(u_x_gp, u_x_gp), QMul(u_y_gp, u_y_gp))),
         QScale(GpScale, QMul(u_gp, f_gp)))

NoLoss == [status |-> "none", valued |-> FALSE, num |-> QZero, den |-> 1]

Raised(what) == [status |-> what, valued |-> FALSE, num |-> QZero, den |-> 1]

\* Entry k of a Gauss point tensor seen at m x m elements.
GpEntry(t, m, k) == IF t.size = m THEN t.at[k] ELSE t.at[<<<<0, 0>>, k[2]>>]

\* Poisson.loss after the boundary conditions: Gauss point evaluation,
\* res_elmwise, its sum over the Gauss points and the mean over the elements.
PoissonAssemble(u, nu, f) ==
    IF IsError(u) THEN Raised("RuntimeError")
    ELSE LET nu_gp  == gauss_pt_evaluation(nu)
             f_gp   == gauss_pt_evaluation(f)
             u_gp   == gauss_pt_evaluation(u)
             u_x_gp == gauss_pt_evaluation_der_x(u)
             u_y_gp == gauss_pt_evaluation_der_y(u)
         IN  IF IsError(nu_gp) \/ IsError(f_gp) \/ IsError(u_gp)
             THEN Raised("IncompatibleGridSize")
             ELSE IF ~Broadcastable(nu_gp.size, u_gp.size)
                     \/ ~Broadcastable(f_gp.size, u_gp.size)
             THEN Raised("RuntimeError")
             ELSE LET m == Max2(u_gp.size, Max2(nu_gp.size, f_gp.size))
                      res_elmwise ==
                          [k \in Nodes(m) \X GaussPts |->
                              QScale(GpwNum,
                                  PoissonIntegrand(GpEntry(nu_gp, m, k),
                                      GpEntry(f_gp, m, k), GpEntry(u_gp, m, k),
                                      GpEntry(u_x_gp, m, k), GpEntry(u_y_gp, m, k)))]
                  IN  [status |-> "returned", valued |-> TRUE,
                       num |-> SumElements(m, 0, res_elmwise),
                       den |-> GpwDen(m) * (m * m) * GpScale * GpScale * GpScale]

\* Stokes.loss after the boundary conditions.  The Gauss point evaluations
\* and the shapes of res_elmwise1 and res_elmwise2 are followed; the number
\* the residual comes to is not represented (valued is FALSE).
StokesAssemble(u, v, p, f) ==
    IF IsError(u) \/ IsError(v) \/ IsError(p) THEN Raised("RuntimeError")
    ELSE LET u_gp == gauss_pt_evaluation(u)
             v_gp == gauss_pt_evaluation(v)
             p_gp == gauss_pt_evaluation(p)
             f_gp == gauss_pt_evaluation(f)
         IN  IF IsError(u_gp) \/ IsError(v_gp) \/ IsError(p_gp) \/ IsError(f_gp)
             THEN Raised("IncompatibleGridSize")
             ELSE IF ~Broadcastable(v_gp.size, u_gp.size)
                     \/ ~Broadcastable(f_gp.size, Max2(u_gp.size, v_gp.size))
                     \/ ~Broadcastable(p_gp.size,
                            Max2(f_gp.size, Max2(u_gp.size, v_gp.size)))
             THEN Raised("RuntimeError")
             ELSE [status |-> "returned", valued |-> FALSE,
                   num |-> QZero, den |-> 1]

\* ------------------------------------------------------------------ state
VARIABLES
    module,         \* "Poisson" or "Stokes": the class of basecase
    dataset,        \* the dataset object; every index yields the same sample
    network,        \* network[0], the nodal field: the sequence of its channels
    masked,         \* the fields loss evaluated for this nodal field, masked
    loss,           \* what loss returned or raised for this nodal field
    plotted,        \* what on_epoch_end plotted for this nodal field
    global_step,    \* optimizer steps taken
    current_epoch,  \* epochs finished
    monitored,      \* the 'loss' metric logged by the last epoch
    best_score,     \* EarlyStopping.best_score
    wait_count,     \* EarlyStopping.wait_count
    should_stop,    \* trainer.should_stop
    improving,      \* history: every epoch so far lowered the loss by more
                    \* than min_delta
    run             \* trainer.fit: "fitting", "stopped" (early), "exhausted"

evalVars == <<masked, loss, plotted>>

trainVars ==
    <<current_epoch, monitored, best_score, wait_count, should_stop, improving,
      run>>

vars == <<module, dataset, network, masked, loss, plotted,
          global_step, current_epoch, monitored, best_score, wait_count,
          should_stop, improving, run>>

GetForcing(d) == d.forcing

\* The masking written into the tensor the name refers to (u[...] = ...).
AssignInPlace(referent, value) == value

\* `u = torch.where(...)` makes a new tensor and binds the local name to it:
\* the tensor the name referred to (the parameter forward returned, or a
\* view of it) keeps its content.  The result is that content.
AssignLocal(referent, value) == referent

NoPlot == [status |-> "none", fields |-> <<>>]

\* An epoch ends after its training steps: on_epoch_end follows a loss call
\* that returned.  An exception ends the run.
\* ----------------------------------------------------------------- Poisson
\* forward, then loss on what it returned.
PoissonLoss ==
    /\ module = "Poisson"
    /\ loss.status = "none"
    /\ LET inputs_tensor == GetInputs(dataset)
           f   == GetForcing(dataset)
           u   == network[1]
           nu  == Channel(inputs_tensor, 0)
           bc1 == Channel(inputs_tensor, 1)
           bc2 == Channel(inputs_tensor, 2)
           ub  == PoissonLossBC(u, bc1, bc2)
       IN  /\ masked' = <<ub>>
           /\ loss' = PoissonAssemble(ub, nu, f)
           /\ network' = <<AssignLocal(u, ub)>>
    /\ UNCHANGED <<module, dataset, plotted, global_step>>
    /\ UNCHANGED trainVars

PoissonOnEpochEnd ==
    /\ module = "Poisson"
    /\ loss.status = "returned"
    /\ plotted.status = "none"
    /\ LET inputs_tensor == GetInputs(dataset)
           u   == network[1]
           bc1 == Channel(inputs_tensor, 1)
           bc2 == Channel(inputs_tensor, 2)
           ub  == PoissonEpochEndBC(u, bc1, bc2)
       IN  /\ plotted' = [status |-> IF IsError(ub) THEN "RuntimeError"
                                     ELSE "saved",
                          fields |-> <<ub>>]
           /\ network' = <<AssignLocal(u, ub)>>
    /\ UNCHANGED <<module, dataset, masked, loss, global_step>>
    /\ UNCHANGED trainVars

\* ------------------------------------------------------------------ Stokes
LineCutColumn == 12

StokesLoss ==
    /\ module = "Stokes"
    /\ loss.status = "none"
    /\ LET inputs_tensor == GetInputs(dataset)
           f   == GetForcing(dataset)
           u   == Channel(network, 0)
           v   == Channel(network, 1)
           p   == Channel(network, 2)
           bc1 == Channel(inputs_tensor, 1)
           bc2 == Channel(inputs_tensor, 2)
           bc3 == Channel(inputs_tensor, 3)
           ub  == StokesLossU(u, bc1, bc2)
           vb  == StokesLossV(v, bc1, bc2)
           pb  == StokesLossP(p, bc3)
       IN  /\ masked' = <<ub, vb, pb>>
           /\ loss' = StokesAssemble(ub, vb, pb, f)
           /\ network' = <<AssignLocal(u, ub), AssignLocal(v, vb),
                           AssignLocal(p, pb)>>
    /\ UNCHANGED <<module, dataset, plotted, global_step>>
    /\ UNCHANGED trainVars

\* The contour plots are saved from the masked fields; the line cut then
\* reads column LineCutColumn of u.
StokesOnEpochEnd ==
    /\ module = "Stokes"
    /\ loss.status = "returned"
    /\ plotted.status = "none"
    /\ LET inputs_tensor == GetInputs(dataset)
           u   == Channel(network, 0)
           v   == Channel(network, 1)
           p   == Channel(network, 2)
           bc1 == Channel(inputs_tensor, 1)
           bc2 == Channel(inputs_tensor, 2)
           bc3 == Channel(inputs_tensor, 3)
           ub  == StokesEpochEndU(u, bc1, bc2)
           vb  == StokesEpochEndV(v, bc1, bc2)
           pb  == StokesEpochEndP(p, bc3)
       IN  /\ plotted' =
                [status |->
                    IF IsError(ub) \/ IsError(vb) \/ IsError(pb)
                    THEN "RuntimeError"
                    ELSE IF IsError(gauss_pt_evaluation_der_x(ub))
                    THEN "IncompatibleGridSize"
                    ELSE IF ub.size <= LineCutColumn THEN "IndexError"
                    ELSE "saved",
                 fields |-> <<ub, vb, pb>>]
           /\ network' = <<AssignLocal(u, ub), AssignLocal(v, vb),
                           AssignLocal(p, pb)>>
    /\ UNCHANGED <<module, dataset, masked, loss, global_step>>
    /\ UNCHANGED trainVars

\* ------------------------------------------- the masking as a function
\* Inputs of the loss and of on_epoch_end: a dataset's sample, or no
\* boundary node at all, with the entries at one node x replaced.
FieldVals == 0..MaxVal

\* The diffusivity at x and the forcing everywhere.
CoefCases == {<<-One, 0>>, <<0, 0>>, <<One, 0>>, <<One, One>>}

MaskVals == {0, 20, Threshold, MaskOne}

NoBoundary(n) ==
    [kind |-> "Dataset", domain_size |-> n, nu |-> Full(n, One),
     bc1 |-> Full(n, 0), bc2 |-> Full(n, 0), bc3 |-> Full(n, 0),
     forcing |-> Full(n, 0)]

Samples(m, n) ==
    IF m = "Poisson"
    THEN {Rectangle(n), Dataset(Full(n, One), n), NoBoundary(n)}
    ELSE {LDC(n, 1), [NoBoundary(n) EXCEPT !.kind = "LDC"]}

Put(t, x, val) == [t EXCEPT !.at[x] = val]

NoTraining ==
    /\ current_epoch = 0
    /\ monitored = 0
    /\ best_score = [inf |-> TRUE, val |-> 0]
    /\ wait_count = 0
    /\ should_stop = FALSE
    /\ improving = TRUE
    /\ run = "fitting"

InitMask ==
    /\ module \in {"Poisson", "Stokes"}
    /\ \E n \in 2..MaxDomain :
         \E d \in Samples(module, n), x \in Nodes(n) :
           \E m1 \in MaskVals, m2 \in MaskVals :
             /\ \E m3 \in (IF module = "Stokes" THEN {0, MaskOne} ELSE {0}),
                   cf \in (IF module = "Poisson" THEN CoefCases
                                                  ELSE {<<One, One>>}) :
                  dataset = [d EXCEPT !.bc1 = Put(d.bc1, x, m1),
                                      !.bc2 = Put(d.bc2, x, m2),
                                      !.bc3 = Put(d.bc3, x, m3),
                                      !.nu  = Put(d.nu, x, cf[1]),
                                      !.forcing = Full(n, cf[2])]
             /\ \E k \in 1..(IF module = "Stokes" THEN 3 ELSE 1),
                   val \in FieldVals :
                  network = [j \in 1..(IF module = "Stokes" THEN 3 ELSE 1) |->
                               IF j = k THEN Put(Full(n, One), x, val)
                               ELSE Full(n, One)]
    /\ masked = <<>>
    /\ loss = NoLoss
    /\ plotted = NoPlot
    /\ global_step = 0
    /\ NoTraining

NextMask ==
    \/ PoissonLoss
    \/ PoissonOnEpochEnd
    \/ StokesLoss
    \/ StokesOnEpochEnd

SpecMask == InitMask /\ [][NextMask]_vars

\* ------------------------------------------------------------- the program
\* main(): the nodal field is np.ones of the grid shape, one channel for
\* Poisson and three for Stokes; the dataset is built on its own domain_size.
NumChannels(m) == IF m = "Stokes" THEN 3 ELSE 1

Init ==
    /\ module \in {"Poisson", "Stokes"}
    /\ \E domain_size \in 1..MaxDomain :
         dataset \in (IF module = "Poisson"
                      THEN {Rectangle(domain_size),
                            Dataset(Full(domain_size, One), domain_size)}
                      ELSE {LDC(domain_size, 1)})
    /\ \E n \in 1..MaxDomain :
         network = [j \in 1..NumChannels(module) |-> Full(n, One)]
    /\ masked = <<>>
    /\ loss = NoLoss
    /\ plotted = NoPlot
    /\ global_step = 0
    /\ NoTraining

\* torch.optim.LBFGS(self.network, lr=1.0, max_iter=5): a step writes new
\* values into the parameter.  Which values is left open: one entry of one
\* channel takes another value.
OptimizerStep ==
    /\ loss.status = "returned"
    /\ plotted.status \in {"none", "saved"}
    /\ global_step < MaxSteps
    /\ \E k \in 1..Len(network), val \in FieldVals :
         \E x \in DOMAIN network[k].at :
           /\ network[k].at[x] # val
           /\ network' = [network EXCEPT ![k] = Put(network[k], x, val)]
    /\ global_step' = global_step + 1
    /\ masked' = <<>>
    /\ loss' = NoLoss
    /\ plotted' = NoPlot
    /\ UNCHANGED <<module, dataset>>
    /\ UNCHANGED trainVars

Next ==
    \/ PoissonLoss
    \/ PoissonOnEpochEnd
    \/ StokesLoss
    \/ StokesOnEpochEnd
    \/ OptimizerStep

Spec == Init /\ [][Next]_vars

\* ----------------------------------------------------------- the run (fit)
\* EarlyStopping('loss', min_delta=1e-8, patience=10, mode='max') and
\* ModelCheckpoint(monitor='loss', mode='min'), as main() builds them.
EarlyStoppingMode == "max"

CheckpointMode == "min"

\* monitor_op is torch.gt for 'max' and torch.lt for 'min'; min_delta keeps
\* its sign for gt and changes it for lt.
MonitorOp(mode, a, b) == IF mode = "max" THEN a > b ELSE a < b

SignedMinDelta(mode) == IF mode = "max" THEN MinDelta ELSE -MinDelta

\* best_score starts at -inf for 'max' and +inf for 'min'.
Improved(mode, current, best) ==
    best.inf \/ MonitorOp(mode, current - SignedMinDelta(mode), best.val)

max_epochs(m) == IF m = "Poisson" THEN PoissonMaxEpochs ELSE StokesMaxEpochs

\* One epoch of trainer.fit: the training steps log 'loss' = l, the
\* EarlyStopping callback runs its check, the trainer decides to go on.
Epoch ==
    /\ run = "fitting"
    /\ current_epoch < max_epochs(module)
    /\ current_epoch < EpochCap
    /\ \E l \in 0..MaxLoss :
         LET better == Improved(EarlyStoppingMode, l, best_score)
             wait   == IF better THEN 0 ELSE wait_count + 1
         IN  /\ monitored' = l
             /\ improving' = (improving /\ (current_epoch = 0
                                            \/ monitored - l > MinDelta))
             /\ best_score' = IF better THEN [inf |-> FALSE, val |-> l]
                              ELSE best_score
             /\ wait_count' = wait
             /\ should_stop' = (wait >= Patience)
             /\ current_epoch' = current_epoch + 1
             /\ run' = IF wait >= Patience THEN "stopped"
                       ELSE IF current_epoch + 1 = max_epochs(module)
                       THEN "exhausted"
                       ELSE "fitting"
    /\ UNCHANGED <<module, dataset, network, masked, loss, plotted, global_step>>

InitTrain ==
    /\ module \in {"Poisson", "Stokes"}
    /\ dataset = (IF module = "Poisson" THEN Dataset(Full(2, One), 2)
                  ELSE LDC(2, 1))
    /\ network = [j \in 1..NumChannels(module) |-> Full(2, One)]
    /\ masked = <<>>
    /\ loss = NoLoss
    /\ plotted = NoPlot
    /\ global_step = 0
    /\ NoTraining

NextTrain == Epoch

SpecTrain == InitTrain /\ [][NextTrain]_vars

\* ================================================================= claims
Set(t, x) == t.at[x] = MaskOne

Binary(t) == \A x \in DOMAIN t.at : t.at[x] \in {0, MaskOne}

BinaryMasks == Binary(dataset.bc1) /\ Binary(dataset.bc2) /\ Binary(dataset.bc3)

\* loss ran on this nodal field and its masking raised no exception.
Masked == masked # <<>> /\ \A k \in 1..Len(masked) : ~IsError(masked[k])

Grid == DOMAIN network[1].at

Constant(t) == \A x \in DOMAIN t.at, y \in DOMAIN t.at : t.at[x] = t.at[y]

\* ---- C1 (SpecMask).  Where two binary masks of one field are both set, the
\* masked field holds the value of the mask applied later: 0 (bc2) for the
\* u of Poisson.loss, 1 (bc2) for the u of Stokes.loss, whatever the field.
C1_LaterMaskWins ==
    (Masked /\ BinaryMasks) =>
        \A x \in Grid :
            (Set(dataset.bc1, x) /\ Set(dataset.bc2, x)) =>
                masked[1].at[x] = (IF module = "Poisson" THEN 0 ELSE One)

C1_Witness ==
    /\ Masked /\ BinaryMasks /\ module = "Stokes"
    /\ \E x \in Grid :
         /\ Set(dataset.bc1, x) /\ Set(dataset.bc2, x)
         /\ network[1].at[x] # One
         /\ masked[1].at[x] = One

\* ---- C2 (SpecMask).  The select rule of loss, node by node.  Selected is
\* the comparison of a mask entry with the threshold: strictly greater, or
\* the comparison that the module's loss is written with.
Selected(strict, m) ==
    IF strict \/ module = "Poisson" THEN m > Threshold ELSE m >= Threshold

Rule(strict, x) ==
    IF module = "Poisson"
    THEN masked[1].at[x] =
            (IF Selected(strict, dataset.bc2.at[x]) THEN 0
             ELSE IF Selected(strict, dataset.bc1.at[x]) THEN One
             ELSE network[1].at[x])
    ELSE /\ masked[1].at[x] =
               (IF Selected(strict, dataset.bc2.at[x]) THEN One
                ELSE IF Selected(strict, dataset.bc1.at[x]) THEN 0
                ELSE network[1].at[x])
         /\ masked[2].at[x] =
               (IF Selected(strict, dataset.bc1.at[x])
                   \/ Selected(strict, dataset.bc2.at[x])
                THEN 0 ELSE network[2].at[x])
         /\ masked[3].at[x] =
               (IF Selected(strict, dataset.bc3.at[x]) THEN 0
                ELSE network[3].at[x])

\* The claim as stated: in Poisson.loss and in Stokes.loss a node is clamped
\* exactly when its mask entry is strictly greater than 0.5, and keeps the
\* value of the nodal field when all its mask entries are at or below 0.5.
C2_StrictlyGreater == Masked => \A x \in Grid : Rule(TRUE, x)

\* C2 as amended: Poisson.loss selects on mask > 0.5, Stokes.loss on
\* mask >= 0.5; a node no mask selects keeps the value of the nodal field.
C2_SelectRule == Masked => \A x \in Grid : Rule(FALSE, x)

C2_Witness ==
    /\ Masked /\ module = "Stokes"
    /\ \E x \in Grid :
         /\ dataset.bc1.at[x] = Threshold
         /\ dataset.bc2.at[x] = 0
         /\ network[1].at[x] # 0
         /\ masked[1].at[x] = 0

\* ---- C3 (SpecMask).  Masking is idempotent: the masking sequence of loss
\* applied to its own result, with the same masks, gives that result again,
\* for the u of Poisson and for the u, v and p of Stokes, for all masks.
C3_Idempotent ==
    Masked =>
        IF module = "Poisson"
        THEN PoissonLossBC(masked[1], dataset.bc1, dataset.bc2) = masked[1]
        ELSE /\ StokesLossU(masked[1], dataset.bc1, dataset.bc2) = masked[1]
             /\ StokesLossV(masked[2], dataset.bc1, dataset.bc2) = masked[2]
             /\ StokesLossP(masked[3], dataset.bc3) = masked[3]

C3_Witness ==
    /\ Masked /\ module = "Poisson"
    /\ masked[1] # network[1]
    /\ \E x \in Grid : dataset.bc1.at[x] > Threshold /\ dataset.bc2.at[x] > Threshold
    /\ \E x \in Grid : network[1].at[x] \notin {0, One}

\* ---- C10 (SpecMask).  With binary masks the fields on_epoch_end plots are,
\* node by node, the fields loss evaluated (u, v, p for Stokes, u for
\* Poisson).
C10_PlottedIsEvaluated ==
    (Masked /\ plotted.status # "none" /\ BinaryMasks) => plotted.fields = masked

C10_Witness ==
    /\ Masked /\ plotted.status # "none" /\ BinaryMasks /\ module = "Stokes"
    /\ plotted.fields # network
    /\ \E x \in Grid : Set(dataset.bc1, x) /\ Set(dataset.bc2, x)

\* ---- C9 (SpecMask).  Poisson.loss is the mean over the elements of the sum
\* over the Gauss points of gpw * (nu*(u_x^2 + u_y^2) - u*f) on the masked
\* field: with zero forcing and a diffusivity that is nowhere negative it is
\* not negative, and it is zero when the masked field is constant.
ZeroForcing == \A x \in DOMAIN dataset.forcing.at : dataset.forcing.at[x] = 0

NonNegativeNu == \A x \in DOMAIN dataset.nu.at : dataset.nu.at[x] >= 0

C9_PoissonLoss ==
    (module = "Poisson" /\ loss.status = "returned" /\ ZeroForcing
        /\ NonNegativeNu) =>
        /\ loss.valued /\ loss.den > 0
        /\ QNonNeg(loss.num)
        /\ Constant(masked[1]) => loss.num = QZero

C9_Witness ==
    /\ module = "Poisson" /\ loss.status = "returned" /\ ZeroForcing
    /\ NonNegativeNu
    /\ Constant(masked[1]) /\ ~Constant(network[1])
    /\ loss.num = QZero

\* ---- C4 (Spec).  For domain_size >= 2 the masks of Rectangle and of Dataset
\* are binary and disjoint, bc1 is set exactly on one edge of the grid (row 0
\* for Rectangle, column 0 for Dataset) and bc2 exactly on the opposite edge.
Last == dataset.domain_size - 1

C4_OppositeEdges ==
    (dataset.kind \in {"Rectangle", "Dataset"} /\ dataset.domain_size >= 2) =>
        /\ Binary(dataset.bc1) /\ Binary(dataset.bc2)
        /\ \A x \in DOMAIN dataset.bc1.at :
             /\ ~(Set(dataset.bc1, x) /\ Set(dataset.bc2, x))
             /\ Set(dataset.bc1, x) <=>
                  (IF dataset.kind = "Rectangle" THEN x[1] = 0 ELSE x[2] = 0)
             /\ Set(dataset.bc2, x) <=>
                  (IF dataset.kind = "Rectangle" THEN x[1] = Last
                   ELSE x[2] = Last)

C4_Witness ==
    /\ dataset.kind = "Rectangle" /\ dataset.domain_size = 2
    /\ Set(dataset.bc1, <<0, 1>>) /\ Set(dataset.bc2, <<1, 0>>)
    /\ loss.status = "returned"

\* ---- C5 (Spec).  The claim as stated: for domain_size >= 2 no node of an
\* LDC sample has bc1 (no-slip walls) and bc2 (lid) both set.
C5_LDCMasksDisjoint ==
    (dataset.kind = "LDC" /\ dataset.domain_size >= 2) =>
        \A x \in DOMAIN dataset.bc1.at :
            ~(dataset.bc1.at[x] > Threshold /\ dataset.bc2.at[x] > Threshold)

\* ---- C7 (Spec).  An evaluation of loss (and of on_epoch_end) leaves every
\* entry of the nodal field as it was, masked nodes included: the field
\* changes only in a step of the optimizer.
C7_NetworkChangesOnlyInSteps ==
    [][global_step' = global_step => network' = network]_vars

C7_Witness ==
    /\ Masked /\ global_step > 0
    /\ \E x \in Grid :
         /\ dataset.domain_size = network[1].size
         /\ dataset.bc1.at[x] > Threshold
         /\ masked[1].at[x] # network[1].at[x]

\* ---- C8 (Spec).  The claim as stated: when the grid of the nodal field
\* differs from the grid of the dataset's masks and coefficient, loss fails
\* before it computes anything and returns no value.
C8_MismatchReturnsNoLoss ==
    (loss.status # "none" /\ network[1].size # dataset.domain_size) =>
        loss.status # "returned"

\* ---- C6 (SpecTrain).  The claim as stated: the run is stopped early only
\* when the loss has failed to decrease, so a run whose loss has decreased
\* (by more than min_delta) at every epoch is not stopped.
C6_NoStopWhileDecreasing == should_stop => ~improving

====
